---- MODULE Spec2Model ----
(***************************************************************************)
(* A model of the interactive session engine of src/src/main.rs: the raw   *)
(* input loop of main, the command buffer, the bounded transcript          *)
(* (output_lines), the full-screen redraw, handle_command and the          *)
(* filesystem commands it dispatches to.                                   *)
(*                                                                         *)
(* Text is a sequence of pieces: a typed character is a one-character      *)
(* string, a literal of the source (a message, an escape sequence) is one  *)
(* piece.  A path is a sequence of names, a name a sequence of characters. *)
(***************************************************************************)
EXTENDS Integers, Sequences, FiniteSets, TLC

VARIABLES
    pc,              \* position of main: start, render, read, or an end state
    rawMode,         \* terminal::enable_raw_mode is in effect
    altScreen,       \* the alternate screen is entered
    screen,          \* what the last flushed frame drew: <<[row, text], ...>>
    command_buffer,  \* main's command_buffer
    output_lines,    \* main's output_lines (the transcript)
    current_dir,     \* main's current_dir, the snapshot taken while rendering
    cwd,             \* the process's working directory
    dirs,            \* the directories that exist
    files,           \* the files that exist, each with its content
    submits,         \* non-blank submissions so far (bounds the run)
    appended,        \* every entry pushed since the transcript was last empty
    quitCalled,      \* quit_terminal has been called
    homeOutcome,     \* how set_to_home_directory went ("unknown" before it)
    editCount,       \* since the buffer was last cleared: characters pushed
                     \* minus Backspaces pressed on a non-empty buffer
    heldBlank,       \* the buffer the last Enter on a blank buffer found, if
                     \* no Backspace and no submission came since
    last             \* the event handled last and the state it found

vars == <<pc, rawMode, altScreen, screen, command_buffer, output_lines,
          current_dir, cwd, dirs, files, submits, appended, quitCalled,
          homeOutcome, editCount, heldBlank, last>>

----------------------------------------------------------------------------
(* Bounds of the model                                                     *)

\* Non-blank submissions in a run of Spec.
MaxSubmits == 2

\* Non-blank submissions in a run of SpecScroll.
MaxScrollSubmits == 11

----------------------------------------------------------------------------
(* Constants of the program                                                *)

MAX_OUTPUT_LINES == 20

U16 == 65536

----------------------------------------------------------------------------
(* Text helpers                                                            *)

Quote == "\""

\* char::is_whitespace, over the characters a key press delivers here.
IsWhitespace(c) == c = " "

\* str::trim().is_empty()
IsBlank(s) == \A i \in 1..Len(s) : IsWhitespace(s[i])

\* The rest of s after its leading whitespace.
RECURSIVE SkipWhitespace(_)
SkipWhitespace(s) ==
    IF s = <<>> THEN <<>>
    ELSE IF IsWhitespace(Head(s)) THEN SkipWhitespace(Tail(s))
    ELSE s

\* The longest prefix of s without whitespace.
RECURSIVE TakeWord(_)
TakeWord(s) ==
    IF s = <<>> THEN <<>>
    ELSE IF IsWhitespace(Head(s)) THEN <<>>
    ELSE <<Head(s)>> \o TakeWord(Tail(s))

\* str::split_whitespace, collected: the words of s in order.
RECURSIVE split_whitespace(_)
split_whitespace(s) ==
    LET t == SkipWhitespace(s)
        w == TakeWord(t)
    IN  IF t = <<>> THEN <<>>
        ELSE <<w>> \o split_whitespace(SubSeq(t, Len(w) + 1, Len(t)))

\* parts.next().unwrap_or("") on the words from position i on.
NextOr(parts, i) == IF i <= Len(parts) THEN parts[i] ELSE <<>>

\* [&str]::join(sep)
RECURSIVE Join(_, _)
Join(ws, sep) ==
    IF ws = <<>> THEN <<>>
    ELSE IF Len(ws) = 1 THEN ws[1]
    ELSE ws[1] \o sep \o Join(Tail(ws), sep)

\* str::trim_start_matches('"')
RECURSIVE TrimStartQuotes(_)
TrimStartQuotes(s) ==
    IF s # <<>> /\ Head(s) = Quote THEN TrimStartQuotes(Tail(s)) ELSE s

\* str::trim_end_matches('"')
RECURSIVE TrimEndQuotes(_)
TrimEndQuotes(s) ==
    IF s # <<>> /\ s[Len(s)] = Quote
    THEN TrimEndQuotes(SubSeq(s, 1, Len(s) - 1))
    ELSE s

\* trim_matches taking one quote at most from each end.
trim_matchesOnce(s) ==
    LET a == IF s # <<>> /\ Head(s) = Quote THEN Tail(s) ELSE s
    IN  IF a # <<>> /\ a[Len(a)] = Quote THEN SubSeq(a, 1, Len(a) - 1) ELSE a

\* str::trim_matches('"')
trim_matches(s) == TrimEndQuotes(TrimStartQuotes(s))

\* crossterm's Stylize::with(color) then to_string(): the text between the
\* colour's escape sequence and the reset sequence.
Styled(color, s) == <<color>> \o s \o <<"ESC[39m">>

Red(s) == Styled("ESC[38;5;9m", s)

Green(s) == Styled("ESC[38;5;10m", s)

Yellow(s) == Styled("ESC[38;5;11m", s)

Cyan(s) == Styled("ESC[38;5;14m", s)

\* Byte order of the characters typed here, for sorting names.
CharOrd(c) ==
    CASE c = " " -> 32 [] c = Quote -> 34 [] c = "." -> 46
      [] c = "a" -> 97 [] c = "c" -> 99 [] c = "d" -> 100 [] c = "e" -> 101
      [] c = "h" -> 104 [] c = "i" -> 105 [] c = "k" -> 107 [] c = "l" -> 108
      [] c = "m" -> 109 [] c = "o" -> 111 [] c = "p" -> 112 [] c = "r" -> 114
      [] c = "s" -> 115 [] c = "t" -> 116 [] c = "u" -> 117 [] c = "w" -> 119
      [] c = "x" -> 120
      [] OTHER -> 127

\* String's Ord: lexicographic, a proper prefix first.
RECURSIVE StrLess(_, _)
StrLess(a, b) ==
    IF b = <<>> THEN FALSE
    ELSE IF a = <<>> THEN TRUE
    ELSE IF CharOrd(Head(a)) # CharOrd(Head(b))
         THEN CharOrd(Head(a)) < CharOrd(Head(b))
    ELSE StrLess(Tail(a), Tail(b))

\* Vec::sort of a set of distinct strings.
RECURSIVE Sorted(_)
Sorted(S) ==
    IF S = {} THEN <<>>
    ELSE LET m == CHOOSE x \in S : \A y \in S \ {x} : StrLess(x, y)
         IN  <<m>> \o Sorted(S \ {m})

----------------------------------------------------------------------------
(* The filesystem                                                          *)

Home == << <<"h">> >>

RootDir == <<>>

Parent(p) == IF p = <<>> THEN <<>> ELSE SubSeq(p, 1, Len(p) - 1)

DotDot == <<".", ".">>

\* A path argument against the working directory w.
Resolve(w, name) ==
    IF name = DotDot THEN Parent(w) ELSE Append(w, name)

\* Path::display
RECURSIVE Display(_)
Display(p) ==
    IF p = <<>> THEN <<"/">>
    ELSE IF Len(p) = 1 THEN <<"/">> \o p[1]
    ELSE Display(Parent(p)) \o <<"/">> \o p[Len(p)]

\* The names in directory p.
Children(p, ds, fs) ==
    {q[Len(q)] : q \in {r \in ds \cup DOMAIN fs : r # <<>> /\ Parent(r) = p}}

ENOENT == <<"No such file or directory (os error 2)">>

EEXIST == <<"File exists (os error 17)">>

ENOTDIR == <<"Not a directory (os error 20)">>

EISDIR == <<"Is a directory (os error 21)">>

ENOTEMPTY == <<"Directory not empty (os error 39)">>

EIO == <<"Input/output error (os error 5)">>

\* What a filesystem command leaves: its text and the filesystem after it.
Outcome(text, w, ds, fs) == [text |-> text, cwd |-> w, dirs |-> ds, files |-> fs]

\* list_directory: the names in the working directory, sorted, one per line.
list_directory(w, ds, fs) ==
    IF w \in ds
    THEN Outcome(Join(Sorted(Children(w, ds, fs)), <<"\n">>), w, ds, fs)
    ELSE Outcome(Red(<<"Error: ">> \o ENOENT), w, ds, fs)

\* current_directory
current_directory(w, ds, fs) ==
    IF w \in ds
    THEN Outcome(Display(w), w, ds, fs)
    ELSE Outcome(Red(<<"Error: ">> \o ENOENT), w, ds, fs)

\* read_file
read_file(file_name, w, ds, fs) ==
    LET p == Resolve(w, file_name)
        err(e) == Outcome(Red(<<"Error reading file '">> \o file_name \o <<"': ">> \o e),
                          w, ds, fs)
    IN  IF file_name = <<>>
        THEN Outcome(Red(<<"Error: File name is required.">>), w, ds, fs)
        ELSE IF p \in DOMAIN fs THEN Outcome(fs[p], w, ds, fs)
        ELSE IF p \in ds THEN err(EISDIR)
        ELSE err(ENOENT)

\* A function with p mapped to v, whether or not p was in its domain.
Put(fs, p, v) == [q \in DOMAIN fs \cup {p} |-> IF q = p THEN v ELSE fs[q]]

\* A function without p in its domain.
Drop(fs, p) == [q \in DOMAIN fs \ {p} |-> fs[q]]

\* create_file; writeOk is whether writeln! succeeds.
create_file(file_name, content, writeOk, w, ds, fs) ==
    LET p == Resolve(w, file_name)
        sanitized_content == trim_matches(content)
        err(e) == Outcome(Red(<<"Error creating file '">> \o file_name \o <<"': ">> \o e),
                          w, ds, fs)
    IN  IF file_name = <<>>
        THEN Outcome(Red(<<"Error: File name is required.">>), w, ds, fs)
        ELSE IF p \in ds THEN err(EISDIR)
        ELSE IF Parent(p) \notin ds THEN err(ENOENT)
        ELSE IF sanitized_content # <<>> /\ ~writeOk
        THEN Outcome(Red(<<"Error writing to file '">> \o file_name \o <<"': ">> \o EIO),
                     w, ds, Put(fs, p, <<>>))
        ELSE Outcome(Green(<<"File '">> \o file_name \o <<"' created.">>), w, ds,
                     Put(fs, p, IF sanitized_content # <<>>
                                THEN sanitized_content \o <<"\n">>
                                ELSE <<>>))

\* create_directory without the test for a missing name.
create_directoryUnchecked(dir_name, w, ds, fs) ==
    LET p == Resolve(w, dir_name)
        err(e) == Outcome(Red(<<"Error creating directory '">> \o dir_name \o <<"': ">> \o e),
                          w, ds, fs)
    IN  IF p \in ds \/ p \in DOMAIN fs THEN err(EEXIST)
        ELSE IF Parent(p) \notin ds THEN err(ENOENT)
        ELSE Outcome(Green(<<"Directory '">> \o dir_name \o <<"' created.">>),
                     w, ds \cup {p}, fs)

\* create_directory
create_directory(dir_name, w, ds, fs) ==
    LET p == Resolve(w, dir_name)
        err(e) == Outcome(Red(<<"Error creating directory '">> \o dir_name \o <<"': ">> \o e),
                          w, ds, fs)
    IN  IF dir_name = <<>>
        THEN Outcome(Red(<<"Error: Directory name is required.">>), w, ds, fs)
        ELSE IF p \in ds \/ p \in DOMAIN fs THEN err(EEXIST)
        ELSE IF Parent(p) \notin ds THEN err(ENOENT)
        ELSE Outcome(Green(<<"Directory '">> \o dir_name \o <<"' created.">>),
                     w, ds \cup {p}, fs)

\* delete_file
delete_file(file_name, w, ds, fs) ==
    LET p == Resolve(w, file_name)
        err(e) == Outcome(Red(<<"Error deleting file '">> \o file_name \o <<"': ">> \o e),
                          w, ds, fs)
    IN  IF file_name = <<>>
        THEN Outcome(Red(<<"Error: File name is required.">>), w, ds, fs)
        ELSE IF p \in DOMAIN fs
        THEN Outcome(Green(<<"File '">> \o file_name \o <<"' deleted.">>),
                     w, ds, Drop(fs, p))
        ELSE IF p \in ds THEN err(EISDIR)
        ELSE err(ENOENT)

\* remove_directory
remove_directory(dir_name, w, ds, fs) ==
    LET p == Resolve(w, dir_name)
        err(e) == Outcome(Red(<<"Error removing directory '">> \o dir_name \o <<"': ">> \o e),
                          w, ds, fs)
    IN  IF dir_name = <<>>
        THEN Outcome(Red(<<"Error: Directory name is required.">>), w, ds, fs)
        ELSE IF p \in DOMAIN fs THEN err(ENOTDIR)
        ELSE IF p \notin ds THEN err(ENOENT)
        ELSE IF Children(p, ds, fs) # {} \/ p = RootDir THEN err(ENOTEMPTY)
        ELSE Outcome(Green(<<"Directory '">> \o dir_name \o <<"' removed.">>),
                     w, ds \ {p}, fs)

\* change_directory moving the working directory before it knows whether the
\* directory is there.
change_directoryBlind(dir_name, w, ds, fs) ==
    LET p == Resolve(w, dir_name)
    IN  IF dir_name = <<>>
        THEN Outcome(Red(<<"Error: Directory name is required.">>), w, ds, fs)
        ELSE IF p \in ds
        THEN Outcome(Green(<<"Changed directory to '">> \o dir_name \o <<"'.">>),
                     p, ds, fs)
        ELSE Outcome(Red(<<"Error changing directory to '">> \o dir_name
                           \o <<"': ">> \o ENOENT), p, ds, fs)

\* change_directory reporting success without moving.
change_directoryNoEffect(dir_name, w, ds, fs) ==
    LET p == Resolve(w, dir_name)
    IN  IF dir_name = <<>>
        THEN Outcome(Red(<<"Error: Directory name is required.">>), w, ds, fs)
        ELSE IF p \in ds
        THEN Outcome(Green(<<"Changed directory to '">> \o dir_name \o <<"'.">>),
                     w, ds, fs)
        ELSE Outcome(Red(<<"Error changing directory to '">> \o dir_name
                           \o <<"': ">> \o ENOENT), w, ds, fs)

\* change_directory
change_directory(dir_name, w, ds, fs) ==
    LET p == Resolve(w, dir_name)
        err(e) == Outcome(Red(<<"Error changing directory to '">> \o dir_name \o <<"': ">> \o e),
                          w, ds, fs)
    IN  IF dir_name = <<>>
        THEN Outcome(Red(<<"Error: Directory name is required.">>), w, ds, fs)
        ELSE IF p \in ds
        THEN Outcome(Green(<<"Changed directory to '">> \o dir_name \o <<"'.">>),
                     p, ds, fs)
        ELSE IF p \in DOMAIN fs THEN err(ENOTDIR)
        ELSE err(ENOENT)

\* echo_command
echo_command(args) == Join(args, <<" ">>)

----------------------------------------------------------------------------
(* The command names of handle_command                                     *)

CMD_LS == <<"l", "s">>

CMD_PWD == <<"p", "w", "d">>

CMD_CAT == <<"c", "a", "t">>

CMD_ECHO == <<"e", "c", "h", "o">>

CMD_TOUCH == <<"t", "o", "u", "c", "h">>

CMD_CLEAR == <<"c", "l", "e", "a", "r">>

CMD_MKDIR == <<"m", "k", "d", "i", "r">>

CMD_RM == <<"r", "m">>

CMD_RMDIR == <<"r", "m", "d", "i", "r">>

CMD_CD == <<"c", "d">>

CMD_EXIT == <<"e", "x", "i", "t">>

----------------------------------------------------------------------------
(* The lines a user types                                                  *)

\* The lines typed in a run of Spec: every command with and without its
\* argument, a line with leading whitespace, an unknown command; the content
\* of the third touch has two words two spaces apart, two quotes before, one
\* after and one inside.
Lines ==
    { <<" ", "l", "s">>,
      <<"p", "w", "d">>,
      <<"c", "a", "t">>,
      <<"c", "a", "t", " ", "a">>,
      <<"e", "c", "h", "o", " ", "x">>,
      <<"t", "o", "u", "c", "h">>,
      <<"t", "o", "u", "c", "h", " ", "a">>,
      <<"t", "o", "u", "c", "h", " ", "a", " ", Quote, Quote, "x", " ", " ",
        Quote, "y", Quote>>,
      <<"c", "l", "e", "a", "r">>,
      <<"m", "k", "d", "i", "r">>,
      <<"m", "k", "d", "i", "r", " ", "d">>,
      <<"r", "m">>,
      <<"r", "m", " ", "a">>,
      <<"r", "m", "d", "i", "r">>,
      <<"r", "m", "d", "i", "r", " ", "d">>,
      <<"c", "d">>,
      <<"c", "d", " ", "d">>,
      <<"c", "d", " ", ".", ".">>,
      <<"e", "x", "i", "t">>,
      <<"x">> }

\* The lines typed in a run of SpecScroll, which fills the transcript.
ScrollLines ==
    { <<"p", "w", "d">>,
      <<"x">> }

\* The lines typed in a run of SpecLayout, which fills the transcript and
\* clears it.
LayoutLines ==
    { <<"x">>,
      <<"c", "l", "e", "a", "r">> }

IsPrefix(s, t) == Len(s) <= Len(t) /\ SubSeq(t, 1, Len(s)) = s

\* The characters of the lines of L.
Chars(L) == UNION {{l[i] : i \in 1..Len(l)} : l \in L}

----------------------------------------------------------------------------
(* The terminal                                                            *)

\* How the terminal calls of one step go: all succeed, the first fails, or
\* a later one fails.
IOOutcomes == {"ok", "failFirst", "failLater"}

Farewell == <<[row |-> 0, text |-> <<"Exiting Unix Emulator. Goodbye!">>]>>

\* quit_terminal: leave the alternate screen, then disable raw mode, then
\* print the farewell; the first failure returns.
quit_terminal(io) ==
    IF io = "failFirst"
    THEN [ok |-> FALSE, altScreen |-> altScreen, rawMode |-> rawMode,
          screen |-> screen]
    ELSE IF io = "failLater"
    THEN [ok |-> FALSE, altScreen |-> FALSE, rawMode |-> rawMode,
          screen |-> <<>>]
    ELSE [ok |-> TRUE, altScreen |-> FALSE, rawMode |-> FALSE,
          screen |-> Farewell]

\* clear_screen: empties the transcript, then draws "Screen Cleared".
clear_screen(io) ==
    [ok |-> io = "ok",
     output_lines |-> <<>>,
     screen |-> IF io = "failFirst" THEN screen
                ELSE <<[row |-> 0, text |-> Yellow(<<"Screen Cleared">>) \o <<"\n">>]>>]

\* Frame with the prompt's row held at the row below a full transcript.
FramePromptCapped(out, dir, buffer) ==
    <<[row |-> 0, text |-> Green(<<"Welcome to the Unix Emulator">>)],
      [row |-> 1, text |-> <<"------------------------------">>]>>
    \o [i \in 1..Len(out) |-> [row |-> ((i - 1) + 2) % U16, text |-> out[i]]]
    \o <<[row |-> (IF Len(out) > MAX_OUTPUT_LINES THEN MAX_OUTPUT_LINES
                   ELSE Len(out)) + 2,
          text |-> Cyan(<<"> ">> \o dir \o <<" ">> \o buffer)]>>

\* The frame one iteration of main's loop draws.
Frame(out, dir, buffer) ==
    <<[row |-> 0, text |-> Green(<<"Welcome to the Unix Emulator">>)],
      [row |-> 1, text |-> <<"------------------------------">>]>>
    \o [i \in 1..Len(out) |-> [row |-> ((i - 1) + 2) % U16, text |-> out[i]]]
    \o <<[row |-> (Len(out) % U16) + 2,
          text |-> Cyan(<<"> ">> \o dir \o <<" ">> \o buffer)]>>

----------------------------------------------------------------------------
(* handle_command                                                          *)

\* What handle_command leaves: how it ended ("none": it returned), its
\* response, the transcript, the filesystem and the terminal after it.
Handled(end, response, out, o, t) ==
    [end |-> end, response |-> response, output_lines |-> out,
     cwd |-> o.cwd, dirs |-> o.dirs, files |-> o.files,
     rawMode |-> t.rawMode, altScreen |-> t.altScreen, screen |-> t.screen]

handle_command(command, out, io) ==
    LET parts == split_whitespace(command)
        cmd == NextOr(parts, 1)
        arg == NextOr(parts, 2)
        here == Outcome(<<>>, cwd, dirs, files)
        term == [rawMode |-> rawMode, altScreen |-> altScreen, screen |-> screen]
        fs(o) == Handled("none", o.text, out, o, term)
    IN  CASE cmd = CMD_LS -> fs(list_directory(cwd, dirs, files))
          [] cmd = CMD_PWD -> fs(current_directory(cwd, dirs, files))
          [] cmd = CMD_CAT -> fs(read_file(arg, cwd, dirs, files))
          [] cmd = CMD_ECHO ->
                Handled("none", echo_command(SubSeq(parts, 2, Len(parts))), out,
                        here, term)
          [] cmd = CMD_TOUCH ->
                fs(create_file(arg, Join(SubSeq(parts, 3, Len(parts)), <<" ">>),
                               io = "ok", cwd, dirs, files))
          [] cmd = CMD_CLEAR ->
                LET c == clear_screen(io)
                IN  Handled("none",
                            IF c.ok THEN <<>>
                            ELSE Red(<<"Error clearing screen: ">> \o EIO),
                            c.output_lines, here,
                            [term EXCEPT !.screen = c.screen])
          [] cmd = CMD_MKDIR -> fs(create_directory(arg, cwd, dirs, files))
          [] cmd = CMD_RM -> fs(delete_file(arg, cwd, dirs, files))
          [] cmd = CMD_RMDIR -> fs(remove_directory(arg, cwd, dirs, files))
          [] cmd = CMD_CD -> fs(change_directory(arg, cwd, dirs, files))
          [] cmd = CMD_EXIT ->
                LET q == quit_terminal(io)
                IN  Handled(IF q.ok THEN "exited" ELSE "panicked", <<>>, out, here,
                            [rawMode |-> q.rawMode, altScreen |-> q.altScreen,
                             screen |-> q.screen])
          [] OTHER ->
                Handled("none", Red(<<"Unknown command: ">> \o cmd), out, here, term)

\* The echo line of a submission.
EchoLine(dir, buffer) == <<"> ">> \o dir \o <<" ">> \o buffer

\* Submit without the echo line.
SubmitNoEcho(out, echo, response) ==
    LET kept == IF Len(out) >= MAX_OUTPUT_LINES THEN Tail(out) ELSE out
    IN  kept \o <<response>>

\* Submit with the two pushes in the order of the calls that made the
\* entries: the response of handle_command, then the echo line.
SubmitResponseFirst(out, echo, response) ==
    LET kept == IF Len(out) >= MAX_OUTPUT_LINES THEN Tail(out) ELSE out
    IN  kept \o <<response, echo>>

\* What main appends after handle_command returned: one entry is dropped
\* from the front when the transcript is at the cap, then the echo line and
\* the response are pushed.
Submit(out, echo, response) ==
    LET kept == IF Len(out) >= MAX_OUTPUT_LINES THEN Tail(out) ELSE out
    IN  kept \o <<echo, response>>

----------------------------------------------------------------------------
(* main                                                                    *)

NoEvent ==
    [key |-> "none", io |-> "ok", buf |-> <<>>, out |-> <<>>, cwd |-> <<>>,
     dirs |-> {}, files |-> <<>>]

\* The event being handled and the state it finds.
Event(key, io) ==
    [key |-> key, io |-> io, buf |-> command_buffer, out |-> output_lines,
     cwd |-> cwd, dirs |-> dirs, files |-> files]

\* The process is started in the root directory; the home directory exists
\* and is empty.
Init ==
    /\ pc = "start"
    /\ rawMode = FALSE
    /\ altScreen = FALSE
    /\ screen = <<>>
    /\ command_buffer = <<>>
    /\ output_lines = <<>>
    /\ current_dir = <<>>
    /\ cwd = RootDir
    /\ dirs = {RootDir, Home}
    /\ files = <<>>
    /\ submits = 0
    /\ appended = <<>>
    /\ quitCalled = FALSE
    /\ homeOutcome = "unknown"
    /\ editCount = 0
    /\ heldBlank = <<>>
    /\ last = NoEvent

\* set_to_home_directory: "set" when the home directory is found and made
\* the working directory, "missing" when dirs::home_dir() finds none (Ok),
\* "refused" when env::set_current_dir fails (Err).
HomeOutcomes == {"set", "missing", "refused"}

\* set_to_home_directory returning an error in the else branch as well.
set_to_home_directoryStrict(home) ==
    [ok |-> home = "set", cwd |-> IF home = "set" THEN Home ELSE cwd]

set_to_home_directory(home) ==
    [ok |-> home # "refused", cwd |-> IF home = "set" THEN Home ELSE cwd]

\* main up to the loop: the home directory, raw mode, the alternate screen.
Startup ==
    /\ pc = "start"
    /\ \E home \in HomeOutcomes, io \in IOOutcomes :
          LET h == set_to_home_directory(home)
          IN  /\ cwd' = h.cwd
              /\ pc' = IF ~h.ok THEN "returned"
                       ELSE IF io = "ok" THEN "render" ELSE "failed"
              /\ rawMode' = (h.ok /\ io # "failFirst")
              /\ altScreen' = (h.ok /\ io = "ok")
              /\ homeOutcome' = home
              /\ last' = Event("startup", io)
    /\ UNCHANGED <<screen, command_buffer, output_lines, current_dir, dirs,
                   files, submits, appended, quitCalled, editCount,
                   heldBlank>>

\* env::current_dir() as main displays it.
CurrentDirText == IF cwd \in dirs THEN Display(cwd) ELSE <<"Unknown Directory">>

\* Render with the working directory taken once, before the loop's first
\* frame, and kept.
RenderStaleDir ==
    /\ pc = "render"
    /\ \E io \in IOOutcomes :
          LET dir == IF current_dir = <<>> THEN CurrentDirText ELSE current_dir
          IN  IF io = "ok"
              THEN /\ current_dir' = dir
                   /\ screen' = Frame(output_lines, dir, command_buffer)
                   /\ pc' = "read"
                   /\ last' = NoEvent
              ELSE /\ current_dir' = current_dir
                   /\ screen' = screen
                   /\ pc' = "failed"
                   /\ last' = Event("renderError", io)
    /\ UNCHANGED <<rawMode, altScreen, command_buffer, output_lines, cwd, dirs,
                   files, submits, appended, quitCalled, homeOutcome,
                   editCount, heldBlank>>

\* The top of the loop: queue the frame, take the working directory, flush.
Render ==
    /\ pc = "render"
    /\ \E io \in IOOutcomes :
          IF io = "ok"
          THEN /\ current_dir' = CurrentDirText
               /\ screen' = Frame(output_lines, CurrentDirText, command_buffer)
               /\ pc' = "read"
               /\ last' = NoEvent
          ELSE /\ current_dir' = current_dir
               /\ screen' = screen
               /\ pc' = "failed"
               /\ last' = Event("renderError", io)
    /\ UNCHANGED <<rawMode, altScreen, command_buffer, output_lines, cwd, dirs,
                   files, submits, appended, quitCalled, homeOutcome,
                   editCount, heldBlank>>

\* event::read() fails.
ReadFails ==
    /\ pc = "read"
    /\ pc' = "failed"
    /\ last' = Event("readError", "failFirst")
    /\ UNCHANGED <<rawMode, altScreen, screen, command_buffer, output_lines,
                   current_dir, cwd, dirs, files, submits, appended, quitCalled,
                   homeOutcome, editCount, heldBlank>>

\* KeyCode::Char(c): the user goes on typing one of the lines of L, of
\* which at most max are typed.
KeyChar(L, max) ==
    /\ pc = "read"
    /\ submits < max
    /\ \E c \in Chars(L) :
          /\ \E l \in L : IsPrefix(Append(command_buffer, c), l)
          /\ command_buffer' = Append(command_buffer, c)
    /\ pc' = "render"
    /\ last' = Event("char", "ok")
    /\ editCount' = editCount + 1
    /\ UNCHANGED <<rawMode, altScreen, screen, output_lines, current_dir, cwd,
                   dirs, files, submits, appended, quitCalled, homeOutcome,
                   heldBlank>>

\* String::pop taking the whole text instead of its last character.
PopAll(s) == <<>>

\* String::pop
Pop(s) == IF s = <<>> THEN s ELSE SubSeq(s, 1, Len(s) - 1)

\* KeyCode::Backspace
KeyBackspace ==
    /\ pc = "read"
    /\ command_buffer' = Pop(command_buffer)
    /\ pc' = "render"
    /\ last' = Event("backspace", "ok")
    /\ editCount' = IF command_buffer = <<>> THEN editCount ELSE editCount - 1
    /\ heldBlank' = <<>>
    /\ UNCHANGED <<rawMode, altScreen, screen, output_lines, current_dir, cwd,
                   dirs, files, submits, appended, quitCalled, homeOutcome>>

\* ShouldSubmit without the trim: only the empty buffer is left alone.
ShouldSubmitNoTrim(buffer) == buffer # <<>>

\* The test main makes on Enter: the buffer is submitted unless it is blank.
ShouldSubmit(buffer) == ~IsBlank(buffer)

\* BufferAfterEnter with the clear left out.
BufferAfterEnterNeverCleared(buffer, submitted) == buffer

\* BufferAfterEnter with the clear outside the if.
BufferAfterEnterAlwaysCleared(buffer, submitted) == <<>>

\* The buffer after Enter: command_buffer.clear() is the last statement of
\* the if that submits, and only there.
BufferAfterEnter(buffer, submitted) == IF submitted THEN <<>> ELSE buffer

\* KeyCode::Enter: a blank buffer is left alone; any other is handed to
\* handle_command, and when that returns the echo line and the response are
\* appended and the buffer is cleared.  The user presses Enter on a blank
\* buffer or on a line of L, and submits at most max lines.
KeyEnter(L, max) ==
    /\ pc = "read"
    /\ IsBlank(command_buffer) \/ (command_buffer \in L /\ submits < max)
    /\ \E io \in IOOutcomes :
          LET h == handle_command(command_buffer, output_lines, io)
              echo == EchoLine(current_dir, command_buffer)
          IN  IF ~ShouldSubmit(command_buffer)
              THEN /\ pc' = "render"
                   /\ last' = Event("enter", "ok")
                   /\ command_buffer' = BufferAfterEnter(command_buffer, FALSE)
                   /\ UNCHANGED <<rawMode, altScreen, screen, output_lines, cwd,
                                  dirs, files, submits, appended, quitCalled,
                                  editCount>>
                   /\ heldBlank' = command_buffer
              ELSE /\ last' = Event("enter", io)
                   /\ submits' = submits + 1
                   /\ cwd' = h.cwd
                   /\ dirs' = h.dirs
                   /\ files' = h.files
                   /\ rawMode' = h.rawMode
                   /\ altScreen' = h.altScreen
                   /\ screen' = h.screen
                   /\ quitCalled' = (quitCalled \/ h.end # "none")
                   /\ heldBlank' = <<>>
                   /\ IF h.end = "none"
                      THEN /\ output_lines' = Submit(h.output_lines, echo, h.response)
                           /\ appended' =
                                (IF h.output_lines = <<>> THEN <<>> ELSE appended)
                                \o <<echo, h.response>>
                           /\ command_buffer' = BufferAfterEnter(command_buffer, TRUE)
                           /\ editCount' = 0
                           /\ pc' = "render"
                      ELSE /\ output_lines' = h.output_lines
                           /\ appended' = appended
                           /\ command_buffer' = command_buffer
                           /\ editCount' = editCount
                           /\ pc' = h.end
    /\ UNCHANGED <<current_dir, homeOutcome>>

\* KeyCode::Esc: quit_terminal, then the loop breaks and main returns.
KeyEsc ==
    /\ pc = "read"
    /\ \E io \in IOOutcomes :
          LET q == quit_terminal(io)
          IN  /\ rawMode' = q.rawMode
              /\ altScreen' = q.altScreen
              /\ screen' = q.screen
              /\ pc' = IF q.ok THEN "terminated" ELSE "failed"
              /\ last' = Event("esc", io)
    /\ quitCalled' = TRUE
    /\ UNCHANGED <<command_buffer, output_lines, current_dir, cwd, dirs, files,
                   submits, appended, homeOutcome, editCount, heldBlank>>

\* Any other key, and any event that is not a key: nothing changes.
OtherEvent ==
    /\ pc = "read"
    /\ pc' = "render"
    /\ last' = Event("other", "ok")
    /\ UNCHANGED <<rawMode, altScreen, screen, command_buffer, output_lines,
                   current_dir, cwd, dirs, files, submits, appended, quitCalled,
                   homeOutcome, editCount, heldBlank>>

\* One step of the program whose user types the lines of L.
Step(L, max) ==
    \/ Startup
    \/ Render
    \/ ReadFails
    \/ KeyChar(L, max)
    \/ KeyBackspace
    \/ KeyEnter(L, max)
    \/ KeyEsc
    \/ OtherEvent

Next == Step(Lines, MaxSubmits)

Spec == Init /\ [][Next]_vars

NextScroll == Step(ScrollLines, MaxScrollSubmits)

SpecScroll == Init /\ [][NextScroll]_vars

NextLayout == Step(LayoutLines, MaxScrollSubmits)

SpecLayout == Init /\ [][NextLayout]_vars

\* The states in which the process has ended.
Ended == {"terminated", "exited", "failed", "panicked", "returned"}

TypeOK ==
    /\ pc \in {"start", "render", "read"} \cup Ended
    /\ rawMode \in BOOLEAN
    /\ altScreen \in BOOLEAN
    /\ homeOutcome \in HomeOutcomes \cup {"unknown"}
    /\ editCount \in Nat
    /\ IsBlank(heldBlank)
    /\ submits \in Nat
    /\ cwd \in dirs

----------------------------------------------------------------------------
(* What the claims speak of                                                *)

\* The loop is running: main is about to render or to read an event.
Running == pc \in {"render", "read"}

\* The last event was Enter on a non-blank buffer.
Submitted == last.key = "enter" /\ \E i \in 1..Len(last.buf) : last.buf[i] # " "

\* The command word and the first argument of the line submitted last.
LastCmd == NextOr(split_whitespace(last.buf), 1)

LastArg == NextOr(split_whitespace(last.buf), 2)

\* The last n entries of t.
LastN(t, n) == SubSeq(t, Len(t) - n + 1, Len(t))

Min(a, b) == IF a <= b THEN a ELSE b

\* The append of a transcript bounded at MAX_OUTPUT_LINES: at the cap the
\* oldest entry goes first.
BoundedAppend(t, e) ==
    (IF Len(t) >= MAX_OUTPUT_LINES THEN Tail(t) ELSE t) \o <<e>>

----------------------------------------------------------------------------
(* The transcript's bound                                                  *)

\* C1: in every reachable state the transcript holds at most
\* MAX_OUTPUT_LINES entries.
C1_TranscriptWithinCap == Len(output_lines) <= MAX_OUTPUT_LINES

\* C2: after k submissions of commands other than clear and exit, starting
\* from the empty transcript, the transcript is the min(2k, MAX_OUTPUT_LINES)
\* most recently appended entries, in the order they were appended.
C2_HoldsMostRecent ==
    Running =>
        /\ Len(appended) = 2 * submits
        /\ output_lines = LastN(appended, Min(2 * submits, MAX_OUTPUT_LINES))

\* C3: the echo line and the result line of a submission are each appended
\* with the cap applied: an entry appended to a full transcript first
\* removes the entry at index 0, and the rest keep their order.
C3_EachEntryCounted ==
    (Submitted /\ Running /\ LastCmd # CMD_CLEAR) =>
        LET n == Len(output_lines)
        IN  /\ n >= 2
            /\ output_lines =
                   BoundedAppend(BoundedAppend(last.out, output_lines[n - 1]),
                                 output_lines[n])

\* C4: submitting clear leaves the transcript empty: it is cleared and
\* neither an echo line nor a result line is appended.
C4_ClearLeavesEmpty ==
    (Submitted /\ LastCmd = CMD_CLEAR) => output_lines = <<>>

----------------------------------------------------------------------------
(* Enter on a blank buffer                                                 *)

\* C5: Enter on an empty or whitespace-only buffer leaves the transcript as
\* it was, dispatches nothing (the filesystem, the working directory and the
\* terminal are as they were) and the loop goes on.
C5_BlankEnterNoChange ==
    (last.key = "enter" /\ \A i \in 1..Len(last.buf) : last.buf[i] = " ") =>
        /\ pc = "render"
        /\ output_lines = last.out
        /\ cwd = last.cwd /\ dirs = last.dirs /\ files = last.files
        /\ rawMode /\ altScreen /\ ~quitCalled

\* Enter was pressed on a buffer of one space, below a transcript with
\* entries.
C5_Witness ==
    /\ pc = "render" /\ last.key = "enter"
    /\ last.buf = <<" ">> /\ last.out # <<>>

----------------------------------------------------------------------------
(* Leaving the session                                                     *)

\* C6: on Escape the terminal mode is restored (alternate screen left, raw
\* mode disabled) and the loop ends in Terminated.
C6_EscRestoresTerminal ==
    last.key = "esc" => (pc = "terminated" /\ ~rawMode /\ ~altScreen)

\* C7: submitting exit restores the terminal and ends the process, and no
\* transcript entry is appended for it.
C7_ExitRestoresTerminal ==
    (Submitted /\ LastCmd = CMD_EXIT) =>
        (pc = "exited" /\ ~rawMode /\ ~altScreen /\ output_lines = last.out)

\* C8: when a failed render or a failed event read ends the session, the
\* process ends only after cleanup of the terminal was attempted.
C8_CleanupBeforeAbort ==
    (pc = "failed" /\ last.key \in {"renderError", "readError"}) => quitCalled

----------------------------------------------------------------------------
(* Errors of a submission                                                  *)

\* The commands that need a first argument.
ArgCmds == {CMD_CAT, CMD_TOUCH, CMD_MKDIR, CMD_RM, CMD_RMDIR, CMD_CD}

AllCmds == ArgCmds \cup {CMD_LS, CMD_PWD, CMD_ECHO, CMD_CLEAR, CMD_EXIT}

\* The line submitted last lacks the argument its command needs.
MissingArgument == Submitted /\ LastCmd \in ArgCmds /\ LastArg = <<>>

\* The line submitted last names no command.
UnknownCommand == Submitted /\ LastCmd \notin AllCmds

\* The line submitted last asks for an operation the filesystem it found
\* refuses.
FailedOperation ==
    LET target == Resolve(last.cwd, LastArg)
        parts == split_whitespace(last.buf)
        content == trim_matches(Join(SubSeq(parts, 3, Len(parts)), <<" ">>))
    IN  /\ Submitted
        /\ LastArg # <<>>
        /\ \/ LastCmd \in {CMD_CAT, CMD_RM} /\ target \notin DOMAIN last.files
           \/ LastCmd = CMD_CD /\ target \notin last.dirs
           \/ LastCmd = CMD_MKDIR /\ target \in last.dirs \cup DOMAIN last.files
           \/ LastCmd = CMD_RMDIR
                /\ \/ target \notin last.dirs
                   \/ \E q \in last.dirs \cup DOMAIN last.files :
                         q # <<>> /\ Parent(q) = target
           \/ LastCmd = CMD_TOUCH
                /\ \/ target \in last.dirs
                   \/ content # <<>> /\ last.io # "ok"

\* The first words of the error texts.
ErrorHeads ==
    {"Error: File name is required.", "Error: Directory name is required.",
     "Unknown command: ", "Error reading file '", "Error creating file '",
     "Error writing to file '", "Error creating directory '",
     "Error deleting file '", "Error removing directory '",
     "Error changing directory to '"}

\* r is an error text, in red.
IsErrorLine(r) ==
    /\ Len(r) >= 3
    /\ r[1] = "ESC[38;5;9m"
    /\ r[2] \in ErrorHeads
    /\ r[Len(r)] = "ESC[39m"

\* C9: a submission that ends in a missing argument, a failed filesystem
\* operation or an unknown command leaves the session running with the
\* terminal as it was, the buffer empty, and the transcript as it was (less
\* an entry dropped at the cap) followed by the echo line and an error line.
C9_ErrorsAreRecovered ==
    (MissingArgument \/ FailedOperation \/ UnknownCommand) =>
        LET n == Len(output_lines)
        IN  /\ pc = "render"
            /\ rawMode /\ altScreen /\ ~quitCalled
            /\ command_buffer = <<>>
            /\ n >= 2
            /\ SubSeq(output_lines, 1, n - 2) =
                   (IF Len(last.out) >= MAX_OUTPUT_LINES THEN Tail(last.out)
                    ELSE last.out)
            /\ output_lines[n - 1] = <<"> ">> \o current_dir \o <<" ">> \o last.buf
            /\ IsErrorLine(output_lines[n])

\* cd was submitted for a directory that is not there, below a transcript
\* with entries.
C9_Witness ==
    /\ pc = "render" /\ FailedOperation /\ LastCmd = CMD_CD
    /\ last.out # <<>>

\* The error text of a missing argument of command cmd.
MissingArgumentText(cmd) ==
    IF cmd \in {CMD_CAT, CMD_TOUCH, CMD_RM}
    THEN <<"ESC[38;5;9m", "Error: File name is required.", "ESC[39m">>
    ELSE <<"ESC[38;5;9m", "Error: Directory name is required.", "ESC[39m">>

\* C10: cat, touch, mkdir, rm, rmdir and cd submitted without an argument
\* answer with the missing-argument error and leave the filesystem and the
\* working directory as they were.
C10_MissingArgumentIsLocal ==
    MissingArgument =>
        /\ cwd = last.cwd /\ dirs = last.dirs /\ files = last.files
        /\ output_lines # <<>>
        /\ output_lines[Len(output_lines)] = MissingArgumentText(LastCmd)

\* mkdir was submitted without a name.
C10_Witness ==
    /\ pc = "render" /\ MissingArgument /\ LastCmd = CMD_MKDIR

----------------------------------------------------------------------------
(* Startup                                                                 *)

\* main has just run up to the loop, and the terminal calls went through.
StartedUp == last.key = "startup" /\ last.io = "ok"

\* C11 as stated: when the home directory is not found, or the working
\* directory cannot be set to it, the process still enters raw mode and the
\* loop, with the working directory it had.
C11_HomeFailureNonFatal ==
    (StartedUp /\ homeOutcome \in {"missing", "refused"}) =>
        /\ pc = "render" /\ rawMode /\ altScreen
        /\ cwd = last.cwd

\* C11 amended: a home directory that is not found is non-fatal (raw mode
\* and the loop are entered with the working directory the process had); a
\* working directory that cannot be set to it ends main with a normal return
\* before raw mode is entered, the working directory as it was.
C11_OnlyMissingHomeNonFatal ==
    last.key = "startup" =>
        /\ homeOutcome = "missing" =>
              /\ cwd = last.cwd
              /\ last.io = "ok" => (pc = "render" /\ rawMode /\ altScreen)
        /\ homeOutcome = "refused" =>
              /\ cwd = last.cwd
              /\ pc = "returned" /\ ~rawMode /\ ~altScreen

\* The home directory was not found and the loop is entered.
C11_Witness ==
    /\ StartedUp /\ homeOutcome = "missing"
    /\ pc = "render" /\ rawMode /\ cwd = RootDir

----------------------------------------------------------------------------
(* The input buffer                                                        *)

\* The text of the live prompt of frame f: its last element.
PromptOf(f) == f[Len(f)].text

\* C12: after a non-blank submission that leaves the process running the
\* input buffer is empty, and the prompt of the render that follows shows
\* "> <cwd> " with no input text after it.
C12_BufferEmptyAfterSubmit ==
    [][/\ (Submitted' /\ Running') => command_buffer' = <<>>
       /\ (Submitted /\ pc = "render" /\ pc' = "read") =>
              PromptOf(screen') = Cyan(<<"> ">> \o current_dir' \o <<" ">>)]_vars

\* pwd was submitted from a buffer of three characters and the loop goes on.
C12_Witness ==
    /\ Submitted /\ pc = "render" /\ LastCmd = CMD_PWD
    /\ Len(last.buf) = 3 /\ command_buffer = <<>>

\* C13: the length of the input buffer is the number of characters inserted
\* minus the number of Backspaces applied to a non-empty buffer, counted from
\* the last point at which the buffer was cleared (the start, or a
\* submission); Backspace on the empty buffer changes nothing, and the count
\* is never negative.
C13_LengthIsInsertsMinusDeletes ==
    /\ Len(command_buffer) = editCount
    /\ editCount >= 0
    /\ (last.key = "backspace" /\ last.buf = <<>>) => command_buffer = <<>>

\* Backspace has just removed the last of three typed characters.
C13_Witness ==
    /\ last.key = "backspace" /\ Len(last.buf) = 3
    /\ Len(command_buffer) = 2 /\ pc = "render"

\* Backspace on the empty buffer.
C13_WitnessEmpty ==
    /\ last.key = "backspace" /\ last.buf = <<>> /\ pc = "render"

----------------------------------------------------------------------------
(* cd and the prompt                                                       *)

\* The line submitted last is `cd <dir>` and the filesystem it found has no
\* directory of that name.
CdToMissing ==
    /\ Submitted /\ LastCmd = CMD_CD /\ LastArg # <<>>
    /\ Resolve(last.cwd, LastArg) \notin last.dirs

\* C14: `cd <dir>` for a directory that does not exist leaves the working
\* directory as it was, and the prompt of the render that follows shows the
\* directory the render before the submission showed.
C14_FailedCdKeepsDirectory ==
    [][(pc = "render" /\ CdToMissing) =>
          /\ cwd = last.cwd
          /\ pc' = "read" =>
                /\ current_dir' = current_dir
                /\ current_dir' = Display(last.cwd)
                /\ PromptOf(screen') =
                      Cyan(<<"> ">> \o current_dir \o <<" ">> \o command_buffer')]_vars

\* `cd d` was submitted in the home directory, where nothing is named d.
C14_Witness ==
    /\ pc = "render" /\ CdToMissing
    /\ last.cwd = Home
    /\ Resolve(last.cwd, LastArg) \notin DOMAIN last.files

----------------------------------------------------------------------------
(* The content touch writes                                                *)

\* The line submitted last is `touch <name> ...`, the name is not a
\* directory's and the write went through.
TouchWritten ==
    /\ pc = "render" /\ Submitted /\ LastCmd = CMD_TOUCH /\ LastArg # <<>>
    /\ last.io = "ok"
    /\ Resolve(last.cwd, LastArg) \notin last.dirs

\* The arguments after the name of the line submitted last, joined with
\* single spaces.
JoinedContent ==
    LET parts == split_whitespace(last.buf)
    IN  Join(SubSeq(parts, 3, Len(parts)), <<" ">>)

\* What a file holds once content c is written to it by writeln!, which is
\* not called for the empty content.
Written(c) == IF c = <<>> THEN <<>> ELSE c \o <<"\n">>

\* s less one quote at its start, if it starts with one, and one quote at
\* its end, if it then ends with one.
OneLayerStripped(s) ==
    LET a == IF s # <<>> /\ s[1] = Quote THEN SubSeq(s, 2, Len(s)) ELSE s
    IN  IF a # <<>> /\ a[Len(a)] = Quote THEN SubSeq(a, 1, Len(a) - 1) ELSE a

\* C15 as stated: touch writes the joined arguments less one quote at most
\* at the start and one at most at the end.
C15_OneLayerOfQuotesStripped ==
    TouchWritten =>
        files[Resolve(last.cwd, LastArg)] = Written(OneLayerStripped(JoinedContent))

\* C15 amended: touch writes the joined arguments less every quote of the
\* run of quotes they start with and of the run they end with; what is
\* written neither starts nor ends with a quote, and the quotes inside it
\* are written.
C15_AllOuterQuotesStripped ==
    TouchWritten =>
        LET j == JoinedContent
        IN  \E a, b \in 0..Len(j) :
               /\ a + b <= Len(j)
               /\ \A i \in 1..a : j[i] = Quote
               /\ \A i \in (Len(j) - b + 1)..Len(j) : j[i] = Quote
               /\ LET c == SubSeq(j, a + 1, Len(j) - b)
                  IN  /\ c # <<>> => (c[1] # Quote /\ c[Len(c)] # Quote)
                      /\ files[Resolve(last.cwd, LastArg)] = Written(c)

\* touch a ""x  "y" was submitted: the file holds x "y and a newline.
C15_Witness ==
    /\ TouchWritten
    /\ JoinedContent = <<Quote, Quote, "x", " ", Quote, "y", Quote>>
    /\ files[Resolve(last.cwd, LastArg)] = <<"x", " ", Quote, "y", "\n">>

----------------------------------------------------------------------------
(* The frame                                                               *)

\* C16: the frame on the screen while the loop waits for an event has, after
\* the title and the separator, the N transcript entries in order on rows
\* 2..2+N-1 and the prompt "> <cwd> <input buffer>" on row 2+N, whatever the
\* previous event added to, dropped from or cleared in the transcript.
C16_PromptBelowTranscript ==
    pc = "read" =>
        LET N == Len(output_lines)
        IN  /\ Len(screen) = N + 3
            /\ \A i \in 1..N :
                  /\ screen[2 + i].row = 2 + (i - 1)
                  /\ screen[2 + i].text = output_lines[i]
            /\ screen[N + 3].row = 2 + N
            /\ screen[N + 3].text =
                  <<"ESC[38;5;14m", "> ">> \o Display(cwd) \o <<" ">>
                     \o command_buffer \o <<"ESC[39m">>

\* The twenty-one entries left by the eleventh submission are on the screen,
\* the prompt on row 23.
C16_Witness ==
    /\ pc = "read" /\ Len(output_lines) = MAX_OUTPUT_LINES + 1
    /\ screen[Len(screen)].row = MAX_OUTPUT_LINES + 3

\* The two entries left by clear are on the screen after a longer transcript.
C16_WitnessCleared ==
    /\ pc = "read" /\ Len(output_lines) = 2 /\ submits >= 2
    /\ screen[Len(screen)].row = 4

----------------------------------------------------------------------------
(* The loop                                                                *)

\* The state an event handler works on.
Session == <<command_buffer, output_lines, cwd, dirs, files>>

\* C17: an iteration renders and then takes one event. The step from the
\* render changes nothing of the session and leads to the event read (or to
\* the end, on a terminal error); when the event is taken the screen shows
\* the session as the previous event left it, the working directory as it is
\* then; the step of the event leads back to the render or ends the process,
\* never to a second event.
C17_OneEventAfterEachRender ==
    [][/\ pc = "render" =>
             /\ pc' \in {"read", "failed"}
             /\ Session' = Session
       /\ pc = "read" =>
             /\ pc' \in {"render"} \cup Ended
             /\ current_dir = Display(cwd)
             /\ [i \in 1..Len(output_lines) |-> screen[2 + i].text] = output_lines
             /\ PromptOf(screen) =
                   Cyan(<<"> ">> \o Display(cwd) \o <<" ">> \o command_buffer)]_vars

\* An event is awaited after the render that followed a cd out of the home
\* directory.
C17_Witness ==
    /\ pc = "read" /\ submits >= 1 /\ homeOutcome = "set" /\ cwd # Home
    /\ current_dir = Display(cwd)
    /\ output_lines # <<>>

----------------------------------------------------------------------------
(* The echo line and the result line                                       *)

\* The response to the line submitted last, from the filesystem and the
\* working directory the submission found.
LastResponse ==
    LET parts == split_whitespace(last.buf)
        w == last.cwd
        ds == last.dirs
        fs == last.files
    IN  CASE LastCmd = CMD_LS -> list_directory(w, ds, fs).text
          [] LastCmd = CMD_PWD -> current_directory(w, ds, fs).text
          [] LastCmd = CMD_CAT -> read_file(LastArg, w, ds, fs).text
          [] LastCmd = CMD_ECHO -> Join(SubSeq(parts, 2, Len(parts)), <<" ">>)
          [] LastCmd = CMD_TOUCH ->
                create_file(LastArg, JoinedContent, last.io = "ok", w, ds, fs).text
          [] LastCmd = CMD_CLEAR ->
                IF last.io = "ok" THEN <<>>
                ELSE <<"ESC[38;5;9m", "Error clearing screen: ">> \o EIO
                        \o <<"ESC[39m">>
          [] LastCmd = CMD_MKDIR -> create_directory(LastArg, w, ds, fs).text
          [] LastCmd = CMD_RM -> delete_file(LastArg, w, ds, fs).text
          [] LastCmd = CMD_RMDIR -> remove_directory(LastArg, w, ds, fs).text
          [] LastCmd = CMD_CD -> change_directory(LastArg, w, ds, fs).text
          [] OTHER -> <<"ESC[38;5;9m", "Unknown command: ">> \o LastCmd
                         \o <<"ESC[39m">>

\* C18: after a non-blank submission that leaves the process running, the
\* last two entries of the transcript are the echo line "> <cwd> <line>" of
\* the submission, with the directory of the frame it was typed under, and
\* then its result line.
C18_EchoThenResult ==
    (Submitted /\ Running) =>
        LET n == Len(output_lines)
        IN  /\ n >= 2
            /\ output_lines[n - 1] = <<"> ">> \o current_dir \o <<" ">> \o last.buf
            /\ output_lines[n] = LastResponse

\* clear was submitted over a transcript that was not empty: dispatch
\* emptied the transcript, then the echo line and the empty result came.
C18_Witness ==
    /\ Submitted /\ pc = "render" /\ LastCmd = CMD_CLEAR /\ last.io = "ok"
    /\ last.out # <<>>
    /\ output_lines = << <<"> ">> \o current_dir \o <<" ">> \o last.buf, <<>> >>

\* The line submitted last is `cd <dir>` and the filesystem it found has
\* that directory.
CdToExisting ==
    /\ Submitted /\ LastCmd = CMD_CD /\ LastArg # <<>>
    /\ Resolve(last.cwd, LastArg) \in last.dirs

\* C19: the echo line of a submission shows the working directory of the
\* frame it was typed under, which is the working directory before dispatch;
\* after a successful cd the echo entry of the cd shows the old directory,
\* the working directory is the new one and the prompt of the render that
\* follows shows the new one.
C19_EchoShowsOldDirectory ==
    [][(pc = "render" /\ Submitted) =>
          LET n == Len(output_lines)
              target == Resolve(last.cwd, LastArg)
          IN  /\ current_dir = Display(last.cwd)
              /\ n >= 2
              /\ output_lines[n - 1] =
                    <<"> ">> \o Display(last.cwd) \o <<" ">> \o last.buf
              /\ CdToExisting =>
                    /\ cwd = target
                    /\ pc' = "read" =>
                          PromptOf(screen') =
                             Cyan(<<"> ">> \o Display(target) \o <<" ">>
                                     \o command_buffer')]_vars

\* `cd d` was submitted in the home directory after d was made there: the
\* echo entry shows the home directory, the working directory is d.
C19_Witness ==
    /\ pc = "render" /\ CdToExisting
    /\ last.cwd = Home /\ cwd = Append(Home, <<"d">>)
    /\ output_lines[Len(output_lines) - 1] =
          <<"> ">> \o Display(Home) \o <<" ">> \o last.buf

----------------------------------------------------------------------------
(* Enter on a blank buffer                                                 *)

\* C20: Enter on a buffer of whitespace only leaves the buffer as it was,
\* and the characters typed after it come after that whitespace: until a
\* Backspace or a submission the buffer starts with the whitespace the Enter
\* found, and a character typed lengthens it by one at its end.
C20_BlankEnterKeepsBuffer ==
    /\ (last.key = "enter" /\ IsBlank(last.buf)) => command_buffer = last.buf
    /\ IsPrefix(heldBlank, command_buffer)
    /\ (last.key = "char" /\ heldBlank # <<>>) =>
          /\ Len(command_buffer) = Len(last.buf) + 1
          /\ SubSeq(command_buffer, 1, Len(last.buf)) = last.buf

\* Enter was pressed on a buffer of one space, and a character typed after
\* it stands behind the space.
C20_Witness ==
    /\ pc = "render" /\ last.key = "char"
    /\ heldBlank = <<" ">> /\ last.buf = <<" ">>
    /\ command_buffer = <<" ", "l">>

====
